---------------------------- MODULE Spec2Model ----------------------------
(***************************************************************************)
(* Model of GreenDisc/bot.py: a Discord time-clock bot.  Members press     *)
(* ENTRADA / SAIDA, the stamp is written to one JSON document, and a       *)
(* monthly calendar message is created or edited in a fixed channel.       *)
(*                                                                         *)
(* Python strings are modelled as sequences of one-character strings, so   *)
(* that formatting (strftime, f-strings), prefix tests, split and slices   *)
(* are computed as the code computes them.  A dict is a function; the      *)
(* per-date dict of users, whose insertion order the renderer shows, is a  *)
(* sequence of entries in insertion order.                                 *)
(***************************************************************************)
EXTENDS Integers, Sequences, FiniteSets, TLC

(***************************************************************************)
(* Bounds of the model.                                                    *)
(***************************************************************************)
\* total number of handlers (button clicks and commands) ever started
MaxOps == 3
\* number of times the wall clock advances
MaxTick == 2

\* handler slots: coroutines that can be in flight at the same time
Handlers == {1, 2}

(***************************************************************************)
(* Strings.                                                                *)
(***************************************************************************)
Digitos == <<"0", "1", "2", "3", "4", "5", "6", "7", "8", "9">>

Dig(n) == Digitos[n + 1]

\* f"{n:02d}" for 0 <= n <= 99
Fmt02(n) == <<Dig(n \div 10), Dig(n % 10)>>

\* f"{n:04d}" for 0 <= n <= 9999
Fmt04(n) ==
    <<Dig(n \div 1000), Dig((n \div 100) % 10), Dig((n \div 10) % 10), Dig(n % 10)>>

\* f"{n:2d}" for 0 <= n <= 99: right-justified in two columns
Fmt2(n) == IF n < 10 THEN <<" ", Dig(n)>> ELSE Fmt02(n)

\* s.startswith(p)
StartsWith(s, p) == Len(s) >= Len(p) /\ SubSeq(s, 1, Len(p)) = p

\* c in s
Contem(s, c) == \E i \in 1..Len(s) : s[i] = c

\* s[a:b] with 0 <= a <= b (Python slice, clipped to the string)
Fatia(s, a, b) == SubSeq(s, a + 1, IF b < Len(s) THEN b ELSE Len(s))

\* s.split(c): the pieces between the occurrences of the character c
RECURSIVE SplitDe(_, _, _, _)
SplitDe(s, c, i, atual) ==
    IF i > Len(s) THEN <<atual>>
    ELSE IF s[i] = c THEN <<atual>> \o SplitDe(s, c, i + 1, <<>>)
    ELSE SplitDe(s, c, i + 1, Append(atual, s[i]))

Split(s, c) == SplitDe(s, c, 1, <<>>)

\* the code point order of the characters a date string is made of
Ord(c) == IF c = "-" THEN 45
          ELSE 48 + (CHOOSE k \in 0..9 : Digitos[k + 1] = c)

\* s < t in Python's string order
RECURSIVE StrMenor(_, _)
StrMenor(s, t) ==
    IF t = <<>> THEN FALSE
    ELSE IF s = <<>> THEN TRUE
    ELSE IF Head(s) = Head(t) THEN StrMenor(Tail(s), Tail(t))
    ELSE Ord(Head(s)) < Ord(Head(t))

\* int(s) for a string of decimal digits
RECURSIVE ParseInt(_)
ParseInt(s) ==
    IF s = <<>> THEN 0
    ELSE 10 * ParseInt(SubSeq(s, 1, Len(s) - 1)) + (Ord(s[Len(s)]) - 48)

\* "\n".join(linhas)
RECURSIVE Join(_)
Join(linhas) ==
    IF linhas = <<>> THEN <<>>
    ELSE IF Len(linhas) = 1 THEN linhas[1]
    ELSE linhas[1] \o <<"\n">> \o Join(Tail(linhas))

(***************************************************************************)
(* Dates: datetime as <<year, month, day, hour, minute>>.                  *)
(***************************************************************************)
Bissexto(y) == y % 4 = 0 /\ (y % 100 # 0 \/ y % 400 = 0)

DiasNoMes(y, m) ==
    IF m = 2 THEN (IF Bissexto(y) THEN 29 ELSE 28)
    ELSE IF m \in {4, 6, 9, 11} THEN 30 ELSE 31

RECURSIVE DiasAntesDoMes(_, _)
DiasAntesDoMes(y, m) ==
    IF m = 1 THEN 0 ELSE DiasAntesDoMes(y, m - 1) + DiasNoMes(y, m - 1)

\* date(y, m, d).toordinal()
Ordinal(y, m, d) ==
    (y - 1) * 365 + ((y - 1) \div 4) - ((y - 1) \div 100) + ((y - 1) \div 400)
        + DiasAntesDoMes(y, m) + d

\* date(y, m, d).weekday(): Monday is 0
Weekday(y, m, d) == (Ordinal(y, m, d) + 6) % 7

\* dt.strftime("%Y-%m")
get_month_key(dt) == Fmt04(dt[1]) \o <<"-">> \o Fmt02(dt[2])

\* dt.strftime("%Y-%m-%d")
get_date_str(dt) == get_month_key(dt) \o <<"-">> \o Fmt02(dt[3])

\* dt.strftime("%Y-%m-%d %H:%M")
FmtHora(dt) == get_date_str(dt) \o <<" ">> \o Fmt02(dt[4]) \o <<":">> \o Fmt02(dt[5])

\* f"{year:04d}-{month:02d}"
MonthKey(year, month) == Fmt04(year) \o <<"-">> \o Fmt02(month)

(***************************************************************************)
(* The stored Document and the records in it.                              *)
(***************************************************************************)
\* the placeholder of a field that was never stamped
SemHora == <<"-", "-", ":", "-", "-">>

\* {"registros": {}, "mensagens": {}}
DocVazio == [registros |-> <<>>, mensagens |-> <<>>]

\* position of user_id in the dict of one date (insertion order), 0 if absent
PosUsuario(usuarios, user_id) ==
    IF \E i \in 1..Len(usuarios) : usuarios[i].id = user_id
    THEN CHOOSE i \in 1..Len(usuarios) : usuarios[i].id = user_id
    ELSE 0

\* registros.get(date_str, {})
UsuariosDe(registros, date_str) ==
    IF date_str \in DOMAIN registros THEN registros[date_str] ELSE <<>>

\* d[k] = v on a dict d
Put(d, k, v) == [x \in (DOMAIN d) \cup {k} |-> IF x = k THEN v ELSE d[x]]

(***************************************************************************)
(* renderizar_calendario                                                   *)
(***************************************************************************)
MESES_PT ==
    <<"Janeiro", "Fevereiro", "Março", "Abril", "Maio", "Junho", "Julho",
      "Agosto", "Setembro", "Outubro", "Novembro", "Dezembro">>

\* the grave accent (U+0060), a character SANY does not read in a string
Crase == "U+0060"

\* the code fence: three grave accents
Cerca == <<Crase, Crase, Crase>>

Cabecalho ==
    <<"S", "e", "g", " ", "T", "e", "r", " ", "Q", "u", "a", " ", "Q",
      "u", "i", " ", "S", "e", "x", " ", "S", "á", "b", " ", "D", "o",
      "m">>

AvisoSemRegistros ==
    <<"_", "A", "i", "n", "d", "a", " ", "n", "ã", "o", " ", "h", "á",
      " ", "r", "e", "g", "i", "s", "t", "r", "o", "s", " ", "d", "e",
      " ", "p", "o", "n", "t", "o", " ", "n", "e", "s", "t", "e", " ",
      "m", "ê", "s", ".", "_">>

TituloRegistros ==
    <<"*", "*", "R", "e", "g", "i", "s", "t", "r", "o", "s", " ", "d",
      "e", " ", "p", "o", "n", "t", "o", " ", "p", "o", "r", " ", "d",
      "i", "a", ":", "*", "*">>

\* mutant: the weeks start on Sunday (firstweekday=6)
MonthDaysCalendarDomingo(year, month) ==
    LET antes  == (Weekday(year, month, 1) + 1) % 7
        n      == DiasNoMes(year, month)
        total  == ((antes + n + 6) \div 7) * 7
        dia(i) == IF i > antes /\ i <= antes + n THEN i - antes ELSE 0
    IN  [w \in 1..(total \div 7) |-> [c \in 1..7 |-> dia((w - 1) * 7 + c)]]

\* calendar.Calendar(firstweekday=0).monthdayscalendar(year, month):
\* the weeks of the month, Monday first, 0 for a day of another month
MonthDaysCalendar(year, month) ==
    LET antes  == Weekday(year, month, 1)
        n      == DiasNoMes(year, month)
        total  == ((antes + n + 6) \div 7) * 7
        dia(i) == IF i > antes /\ i <= antes + n THEN i - antes ELSE 0
    IN  [w \in 1..(total \div 7) |-> [c \in 1..7 |-> dia((w - 1) * 7 + c)]]

\* one cell of the grid: "   " or f"{day:2d} "
Celula(day) == IF day = 0 THEN <<" ", " ", " ">> ELSE Fmt2(day) \o <<" ">>

\* " ".join(linha_semana)
LinhaSemana(week) ==
    Celula(week[1]) \o <<" ">> \o Celula(week[2]) \o <<" ">> \o Celula(week[3])
        \o <<" ">> \o Celula(week[4]) \o <<" ">> \o Celula(week[5])
        \o <<" ">> \o Celula(week[6]) \o <<" ">> \o Celula(week[7])

\* lines 99-113: the fenced grid
LinhasGrade(year, month) ==
    LET semanas == MonthDaysCalendar(year, month)
    IN  <<Cerca, Cabecalho>>
            \o [w \in 1..Len(semanas) |-> LinhaSemana(semanas[w])]
            \o <<Cerca>>

\* mutant: the dates are filtered by the year only
DatasDoAno(registros, month_key) ==
    {data_str \in DOMAIN registros : StartsWith(data_str, SubSeq(month_key, 1, 5))}

\* lines 116-119: the dates of the month, by prefix of the date string
DatasDoMes(registros, month_key) ==
    {data_str \in DOMAIN registros : StartsWith(data_str, month_key)}

\* sorted(registros_mes.keys())
RECURSIVE Sorted(_)
Sorted(S) ==
    IF S = {} THEN <<>>
    ELSE LET menor == CHOOSE s \in S : \A t \in S \ {s} : StrMenor(s, t)
         IN  <<menor>> \o Sorted(S \ {menor})

\* mutant: the stored value is shown as it is
SoHoraInteira(valor) == valor

\* lines 137-140: only HH:MM of a stamp
SoHora(valor) ==
    IF valor # SemHora /\ Contem(valor, " ")
    THEN Fatia(Split(valor, " ")[2], 0, 5)
    ELSE valor

\* line 141
LinhaUsuario(info) ==
    <<"-", " ">> \o info.name
        \o <<":", " ", "e", "n", "t", "r", "a", "d", "a", " ">> \o SoHora(info.entrada)
        \o <<" ", "|", " ", "s", "a", "í", "d", "a", " ">> \o SoHora(info.saida)

\* lines 128-141: the block of one date
LinhasDia(data_str, month, usuarios) ==
    LET dia == ParseInt(Split(data_str, "-")[3])
    IN  << <<"\n", "_", "_", "D", "i", "a", " ">> \o Fmt02(dia) \o <<"/">>
               \o Fmt02(month) \o <<"_", "_">> >>
            \o [i \in 1..Len(usuarios) |-> LinhaUsuario(usuarios[i])]

RECURSIVE LinhasDias(_, _, _)
LinhasDias(datas, month, registros) ==
    IF datas = <<>> THEN <<>>
    ELSE LinhasDia(Head(datas), month, registros[Head(datas)])
             \o LinhasDias(Tail(datas), month, registros)

\* the list linhas of renderizar_calendario, before the join
LinhasCalendario(year, month, registros) ==
    LET datas == DatasDoMes(registros, MonthKey(year, month))
    IN  IF datas = {}
        THEN LinhasGrade(year, month) \o <<AvisoSemRegistros>>
        ELSE LinhasGrade(year, month) \o <<TituloRegistros>>
                 \o LinhasDias(Sorted(datas), month, registros)

\* monthdayscalendar raises IllegalMonthError outside 1..12
MesValido(month) == month >= 1 /\ month <= 12

renderizar_calendario(year, month, registros) ==
    Join(LinhasCalendario(year, month, registros))

\* f"Calendário de ponto - {MESES_PT[month]}/{year}"
Titulo(year, month) == [mes |-> MESES_PT[month], ano |-> year]

\* discord.Embed(title=titulo, description=descricao)
Embed(year, month, registros) ==
    [title |-> Titulo(year, month),
     description |-> renderizar_calendario(year, month, registros)]

(***************************************************************************)
(* Inputs.                                                                 *)
(***************************************************************************)
\* the instant of the first clock reading, and the hours between readings
Inicio == <<2025, 11, 30, 9, 0>>

Passo == 9

\* dt + timedelta(hours=n), for n < 24
MaisHoras(dt, n) ==
    IF dt[4] + n < 24 THEN <<dt[1], dt[2], dt[3], dt[4] + n, dt[5]>>
    ELSE IF dt[3] < DiasNoMes(dt[1], dt[2])
         THEN <<dt[1], dt[2], dt[3] + 1, dt[4] + n - 24, dt[5]>>
    ELSE IF dt[2] < 12 THEN <<dt[1], dt[2] + 1, 1, dt[4] + n - 24, dt[5]>>
    ELSE <<dt[1] + 1, 1, 1, dt[4] + n - 24, dt[5]>>

\* datetime.now() at the t-th reading of the clock
RECURSIVE Instante(_)
Instante(t) == IF t = 0 THEN Inicio ELSE MaisHoras(Instante(t - 1), Passo)

\* the members, by str(interaction.user.id)
Usuarios == {"1001", "1002"}

\* the display names a member can have when clicking
NomesDe(user_id) ==
    IF user_id = "1001"
    THEN {<<"a", "l", "i", "c", "e">>, <<"a", "l", "i">>}
    ELSE {<<"b", "o", "b">>}

Tipos == {"entrada", "saida"}

\* the <<ano, mes>> arguments given to !atualizar_calendario and !calendario
ArgsMes == {<<2025, 11>>, <<2025, 13>>}

(***************************************************************************)
(* State.                                                                  *)
(***************************************************************************)
VARIABLES
    CALENDAR_CHANNEL_ID, \* line 15: 0 when not configured
    arquivo,             \* DATA_FILE: whether it exists, and the Document in it
    canal,               \* the calendar channel: message id -> embed
    proxId,              \* the id the platform gives the next message
    tique,               \* readings of the wall clock so far
    ops,                 \* handlers started so far
    hs,                  \* the handler coroutines, by slot
    ultimo,              \* history: the last stamp saved per <<date, user, tipo>>
    ultPub               \* history: the last completed publish, while nothing
                         \* was recorded or deleted since

vars == <<CALENDAR_CHANNEL_ID, arquivo, canal, proxId, tique, ops, hs, ultimo, ultPub>>

\* the id of the configured channel
CanalConfigurado == 77

SemPub == [valido |-> FALSE, ano |-> 0, mes |-> 0, id |-> 0, embed |-> <<>>, seguidas |-> 0]

\* the history after a publish of (ano, mes) completed on message id
PubConcluida(ano, mes, id, embed) ==
    [valido |-> TRUE, ano |-> ano, mes |-> mes, id |-> id, embed |-> embed,
     seguidas |-> IF ultPub.valido /\ ultPub.ano = ano /\ ultPub.mes = mes
                  THEN ultPub.seguidas + 1 ELSE 1]

HandlerLivre ==
    [cmd |-> "", pc |-> "livre", erro |-> "", ano |-> 0, mes |-> 0,
     user_id |-> "", nome |-> <<>>, tipo |-> "", date_str |-> <<>>,
     hora_str |-> <<>>, dados |-> DocVazio, sumiu |-> FALSE, msg_id |-> 0,
     resposta |-> <<>>]

Terminal(h) == hs[h].pc \in {"livre", "fim", "abortado"}

\* no coroutine is suspended
Parado == \A h \in Handlers : Terminal(h)

\* a new handler takes the first slot that is not in flight
Livre(h) ==
    /\ ops < MaxOps
    /\ Terminal(h)
    /\ \A g \in Handlers : g < h => ~Terminal(g)

Init ==
    /\ CALENDAR_CHANNEL_ID \in {0, CanalConfigurado}
    /\ arquivo = [existe |-> FALSE, dados |-> DocVazio]
    /\ canal = <<>>
    /\ proxId = 1
    /\ tique = 0
    /\ ops = 0
    /\ hs = [h \in Handlers |-> HandlerLivre]
    /\ ultimo = <<>>
    /\ ultPub = SemPub

(***************************************************************************)
(* Persistence: garantir_arquivo, carregar_dados, salvar_dados.            *)
(***************************************************************************)
\* mutant: the empty Document is written without the test of line 49
garantir_arquivoSemTeste(arq) == [existe |-> TRUE, dados |-> DocVazio]

garantir_arquivo(arq) ==
    IF arq.existe THEN arq ELSE [existe |-> TRUE, dados |-> DocVazio]

carregar_dados(arq) == garantir_arquivo(arq).dados

salvar_dados(dados) == [existe |-> TRUE, dados |-> dados]

(***************************************************************************)
(* registrar_ponto, lines 222-238: the Document with the stamp written.    *)
(***************************************************************************)
\* mutant: a field already stamped is kept, the later click is dropped
CarimbarPrimeiroVence(registros, date_str, user_id, nome, tipo, hora_str) ==
    LET antes == UsuariosDe(registros, date_str)
        usuarios ==
            IF PosUsuario(antes, user_id) = 0
            THEN Append(antes, [id |-> user_id, name |-> nome,
                                entrada |-> SemHora, saida |-> SemHora])
            ELSE antes
        p == PosUsuario(usuarios, user_id)
    IN  Put(registros, date_str,
            IF tipo = "entrada"
            THEN (IF usuarios[p].entrada = SemHora
                  THEN [usuarios EXCEPT ![p].entrada = hora_str] ELSE usuarios)
            ELSE (IF usuarios[p].saida = SemHora
                  THEN [usuarios EXCEPT ![p].saida = hora_str] ELSE usuarios))

\* mutant: the name is written on every click, not only with a new record
CarimbarAtualizaNome(registros, date_str, user_id, nome, tipo, hora_str) ==
    LET antes == UsuariosDe(registros, date_str)
        usuarios ==
            IF PosUsuario(antes, user_id) = 0
            THEN Append(antes, [id |-> user_id, name |-> nome,
                                entrada |-> SemHora, saida |-> SemHora])
            ELSE antes
        p == PosUsuario(usuarios, user_id)
    IN  Put(registros, date_str,
            IF tipo = "entrada"
            THEN [usuarios EXCEPT ![p].entrada = hora_str, ![p].name = nome]
            ELSE [usuarios EXCEPT ![p].saida = hora_str, ![p].name = nome])

\* mutant: registros[date_str] = {} without the test of line 222
CarimbarReiniciaDia(registros, date_str, user_id, nome, tipo, hora_str) ==
    LET novo == [id |-> user_id, name |-> nome, entrada |-> SemHora, saida |-> SemHora]
    IN  Put(registros, date_str,
            IF tipo = "entrada"
            THEN <<[novo EXCEPT !.entrada = hora_str]>>
            ELSE <<[novo EXCEPT !.saida = hora_str]>>)

\* mutant: stamping one field puts the placeholder back in the other
CarimbarLimpaOutroCampo(registros, date_str, user_id, nome, tipo, hora_str) ==
    LET antes == UsuariosDe(registros, date_str)
        usuarios ==
            IF PosUsuario(antes, user_id) = 0
            THEN Append(antes, [id |-> user_id, name |-> nome,
                                entrada |-> SemHora, saida |-> SemHora])
            ELSE antes
        p == PosUsuario(usuarios, user_id)
    IN  Put(registros, date_str,
            IF tipo = "entrada"
            THEN [usuarios EXCEPT ![p].entrada = hora_str, ![p].saida = SemHora]
            ELSE [usuarios EXCEPT ![p].saida = hora_str, ![p].entrada = SemHora])

Carimbar(registros, date_str, user_id, nome, tipo, hora_str) ==
    LET antes == UsuariosDe(registros, date_str)
        usuarios ==
            IF PosUsuario(antes, user_id) = 0
            THEN Append(antes, [id |-> user_id, name |-> nome,
                                entrada |-> SemHora, saida |-> SemHora])
            ELSE antes
        p == PosUsuario(usuarios, user_id)
    IN  Put(registros, date_str,
            IF tipo = "entrada"
            THEN [usuarios EXCEPT ![p].entrada = hora_str]
            ELSE [usuarios EXCEPT ![p].saida = hora_str])

\* msg_conf, lines 233 and 236
MsgConf(tipo, nome, hora_str) ==
    <<"registrada", IF tipo = "entrada" THEN "Entrada" ELSE "Saída", nome,
      Fatia(hora_str, 11, 16)>>

(***************************************************************************)
(* atualizar_mensagem_calendario, between its suspension points.           *)
(***************************************************************************)
\* the exception leaves the handler: nothing after the raising line runs
Abortar(hd, onde) == [hd EXCEPT !.pc = "abortado", !.erro = onde, !.dados = DocVazio]

\* the publisher returned to its caller, which goes on to its last statement,
\* the awaited send of the reply (line 245 of registrar_ponto, line 282 of
\* comando_atualizar_calendario); nothing of the handler runs after it
Retornar(hd) ==
    IF hd.cmd = "ponto" THEN [hd EXCEPT !.pc = "fim", !.dados = DocVazio]
    ELSE IF ~MesValido(hd.mes) THEN Abortar(hd, "MESES_PT")
    ELSE [hd EXCEPT !.pc = "fim", !.dados = DocVazio,
                    !.resposta = <<"atualizado", MESES_PT[hd.mes], hd.ano>>]

\* mutant: the stored reference is not looked up, a message is always sent
AposCanalSempreCria(hd) ==
    IF ~MesValido(hd.mes) THEN Abortar(hd, "render")
    ELSE [hd EXCEPT !.pc = "send"]

\* lines 169-186 with the channel at hand, up to the next awaited call
AposCanal(hd) ==
    IF ~MesValido(hd.mes) THEN Abortar(hd, "render")
    ELSE IF MonthKey(hd.ano, hd.mes) \in DOMAIN hd.dados.mensagens
    THEN [hd EXCEPT !.pc = "fetch_message"]
    ELSE [hd EXCEPT !.pc = "send"]

\* mutant: the publisher works on the Document as it was before the caller
\* saved its stamp
EntrarPublicarAntesDeGravar(hd, arq, emCache) ==
    IF CALENDAR_CHANNEL_ID = 0 THEN Retornar(hd)
    ELSE LET comDados == [hd EXCEPT !.dados = carregar_dados(arquivo)]
         IN  IF emCache THEN AposCanal(comDados)
             ELSE [comDados EXCEPT !.pc = "fetch_channel"]

\* mutant: the publisher goes on without the test of line 155
EntrarPublicarSemTeste(hd, arq, emCache) ==
    LET comDados == [hd EXCEPT !.dados = carregar_dados(arq)]
    IN  IF emCache THEN AposCanal(comDados)
        ELSE [comDados EXCEPT !.pc = "fetch_channel"]

\* lines 155-166: the handler from the call of the publisher to its first
\* awaited call; emCache is whether get_channel finds the channel
EntrarPublicar(hd, arq, emCache) ==
    IF CALENDAR_CHANNEL_ID = 0 THEN Retornar(hd)
    ELSE LET comDados == [hd EXCEPT !.dados = carregar_dados(arq)]
         IN  IF emCache THEN AposCanal(comDados)
             ELSE [comDados EXCEPT !.pc = "fetch_channel"]

\* the file after the call of the publisher reached its first awaited call
ArquivoAposEntrar(arq) ==
    IF CALENDAR_CHANNEL_ID = 0 THEN arq ELSE garantir_arquivo(arq)

\* the id stored for the month in the Document the handler loaded
IdGuardado(hd) == hd.dados.mensagens[MonthKey(hd.ano, hd.mes)].message_id

\* the embed the handler publishes, rendered from the registros it loaded
EmbedDe(hd) == Embed(hd.ano, hd.mes, hd.dados.registros)

(***************************************************************************)
(* Handlers.  Each action is the code of one coroutine from one suspension *)
(* point (an awaited platform call) to the next.                           *)
(***************************************************************************)
\* a click on ENTRADA or SAIDA: registrar_ponto, lines 212-242, up to the
\* first awaited call
IniciarPonto(h, user_id, nome, tipo, emCache) ==
    /\ Livre(h)
    /\ LET agora    == Instante(tique)
           date_str == get_date_str(agora)
           hora_str == FmtHora(agora)
           dados    == carregar_dados(arquivo)
           salvo    == [dados EXCEPT !.registros =
                           Carimbar(dados.registros, date_str, user_id, nome,
                                    tipo, hora_str)]
           hd       == [HandlerLivre EXCEPT
                           !.cmd = "ponto", !.ano = agora[1], !.mes = agora[2],
                           !.user_id = user_id, !.nome = nome, !.tipo = tipo,
                           !.date_str = date_str, !.hora_str = hora_str,
                           !.resposta = MsgConf(tipo, nome, hora_str)]
       IN  /\ arquivo' = ArquivoAposEntrar(salvar_dados(salvo))
           /\ hs' = [hs EXCEPT ![h] = EntrarPublicar(hd, salvar_dados(salvo), emCache)]
           /\ ultimo' = Put(ultimo, <<date_str, user_id, tipo>>, hora_str)
    /\ ultPub' = SemPub
    /\ ops' = ops + 1
    /\ UNCHANGED <<CALENDAR_CHANNEL_ID, canal, proxId, tique>>

\* !atualizar_calendario [ano] [mes]: lines 275-281, up to the first awaited
\* call; dado is whether the arguments were given
IniciarAtualizar(h, dado, args, emCache) ==
    /\ Livre(h)
    /\ LET agora == Instante(tique)
           hd    == [HandlerLivre EXCEPT
                        !.cmd = "atualizar",
                        !.ano = IF dado THEN args[1] ELSE agora[1],
                        !.mes = IF dado THEN args[2] ELSE agora[2]]
       IN  hs' = [hs EXCEPT ![h] = EntrarPublicar(hd, arquivo, emCache)]
    /\ arquivo' = ArquivoAposEntrar(arquivo)
    /\ ops' = ops + 1
    /\ UNCHANGED <<CALENDAR_CHANNEL_ID, canal, proxId, tique, ultimo, ultPub>>

\* mutant: the Document is loaded before the month is validated
IniciarCalendarioCarregaAntes(h, ano, mes) ==
    /\ Livre(h)
    /\ LET hd == [HandlerLivre EXCEPT !.cmd = "calendario", !.ano = ano, !.mes = mes,
                                      !.pc = "fim"]
       IN  /\ arquivo' = garantir_arquivo(arquivo)
           /\ hs' = [hs EXCEPT ![h] =
                        IF mes < 1 \/ mes > 12
                        THEN [hd EXCEPT !.resposta = <<"mes_invalido">>]
                        ELSE [hd EXCEPT !.resposta =
                                 <<"calendario",
                                   Embed(ano, mes, carregar_dados(arquivo).registros)>>]]
    /\ ops' = ops + 1
    /\ UNCHANGED <<CALENDAR_CHANNEL_ID, canal, proxId, tique, ultimo, ultPub>>

\* mutant: a month without records is answered with an error
IniciarCalendarioErroSemRegistros(h, ano, mes) ==
    /\ Livre(h)
    /\ LET hd == [HandlerLivre EXCEPT !.cmd = "calendario", !.ano = ano, !.mes = mes,
                                      !.pc = "fim"]
           registros == carregar_dados(arquivo).registros
       IN  IF mes < 1 \/ mes > 12
           THEN /\ hs' = [hs EXCEPT ![h] = [hd EXCEPT !.resposta = <<"mes_invalido">>]]
                /\ arquivo' = arquivo
           ELSE /\ hs' = [hs EXCEPT ![h] =
                             IF DatasDoMes(registros, MonthKey(ano, mes)) = {}
                             THEN Abortar(hd, "sem_registros")
                             ELSE [hd EXCEPT !.resposta =
                                      <<"calendario", Embed(ano, mes, registros)>>]]
                /\ arquivo' = garantir_arquivo(arquivo)
    /\ ops' = ops + 1
    /\ UNCHANGED <<CALENDAR_CHANNEL_ID, canal, proxId, tique, ultimo, ultPub>>

\* !calendario ano mes: lines 292-303; the awaited send of the reply is the
\* last statement on both paths
IniciarCalendario(h, ano, mes) ==
    /\ Livre(h)
    /\ LET hd == [HandlerLivre EXCEPT !.cmd = "calendario", !.ano = ano, !.mes = mes,
                                      !.pc = "fim"]
       IN  IF mes < 1 \/ mes > 12
           THEN /\ hs' = [hs EXCEPT ![h] = [hd EXCEPT !.resposta = <<"mes_invalido">>]]
                /\ arquivo' = arquivo
           ELSE /\ hs' = [hs EXCEPT ![h] = [hd EXCEPT !.resposta =
                             <<"calendario",
                               Embed(ano, mes, carregar_dados(arquivo).registros)>>]]
                /\ arquivo' = garantir_arquivo(arquivo)
    /\ ops' = ops + 1
    /\ UNCHANGED <<CALENDAR_CHANNEL_ID, canal, proxId, tique, ultimo, ultPub>>

\* line 166: client.fetch_channel returns the channel
FetchChannelOk(h) ==
    /\ hs[h].pc = "fetch_channel"
    /\ hs' = [hs EXCEPT ![h] = AposCanal(hs[h])]
    /\ UNCHANGED <<CALENDAR_CHANNEL_ID, arquivo, canal, proxId, tique, ops, ultimo, ultPub>>

\* line 166: client.fetch_channel raises (NotFound, Forbidden, HTTPException)
FetchChannelFalha(h) ==
    /\ hs[h].pc = "fetch_channel"
    /\ hs' = [hs EXCEPT ![h] = Abortar(hs[h], "fetch_channel")]
    /\ UNCHANGED <<CALENDAR_CHANNEL_ID, arquivo, canal, proxId, tique, ops, ultimo, ultPub>>

\* line 177: the stored message is found
FetchMessageOk(h) ==
    /\ hs[h].pc = "fetch_message"
    /\ IdGuardado(hs[h]) \in DOMAIN canal
    /\ hs' = [hs EXCEPT ![h].pc = "edit"]
    /\ UNCHANGED <<CALENDAR_CHANNEL_ID, arquivo, canal, proxId, tique, ops, ultimo, ultPub>>

\* lines 177-186: discord.NotFound is caught, the handler goes on to send
FetchMessageNotFound(h) ==
    /\ hs[h].pc = "fetch_message"
    /\ IdGuardado(hs[h]) \notin DOMAIN canal
    /\ hs' = [hs EXCEPT ![h].pc = "send", ![h].sumiu = TRUE]
    /\ UNCHANGED <<CALENDAR_CHANNEL_ID, arquivo, canal, proxId, tique, ops, ultimo, ultPub>>

\* line 177: an error other than NotFound is not caught
FetchMessageFalha(h) ==
    /\ hs[h].pc = "fetch_message"
    /\ hs' = [hs EXCEPT ![h] = Abortar(hs[h], "fetch_message")]
    /\ UNCHANGED <<CALENDAR_CHANNEL_ID, arquivo, canal, proxId, tique, ops, ultimo, ultPub>>

\* mutant: the publisher saves the Document it loaded after the edit too
EditOkGrava(h) ==
    /\ hs[h].pc = "edit"
    /\ IdGuardado(hs[h]) \in DOMAIN canal
    /\ canal' = [canal EXCEPT ![IdGuardado(hs[h])] = EmbedDe(hs[h])]
    /\ arquivo' = salvar_dados(hs[h].dados)
    /\ ultPub' = PubConcluida(hs[h].ano, hs[h].mes, IdGuardado(hs[h]), EmbedDe(hs[h]))
    /\ hs' = [hs EXCEPT ![h] = Retornar([hs[h] EXCEPT !.msg_id = IdGuardado(hs[h])])]
    /\ UNCHANGED <<CALENDAR_CHANNEL_ID, proxId, tique, ops, ultimo>>

\* lines 178-179: the message is edited and the publisher returns
EditOk(h) ==
    /\ hs[h].pc = "edit"
    /\ IdGuardado(hs[h]) \in DOMAIN canal
    /\ canal' = [canal EXCEPT ![IdGuardado(hs[h])] = EmbedDe(hs[h])]
    /\ ultPub' = PubConcluida(hs[h].ano, hs[h].mes, IdGuardado(hs[h]), EmbedDe(hs[h]))
    /\ hs' = [hs EXCEPT ![h] = Retornar([hs[h] EXCEPT !.msg_id = IdGuardado(hs[h])])]
    /\ UNCHANGED <<CALENDAR_CHANNEL_ID, arquivo, proxId, tique, ops, ultimo>>

\* lines 178-186: the message was deleted after it was fetched; the edit
\* raises discord.NotFound inside the try block
EditNotFound(h) ==
    /\ hs[h].pc = "edit"
    /\ IdGuardado(hs[h]) \notin DOMAIN canal
    /\ hs' = [hs EXCEPT ![h].pc = "send", ![h].sumiu = TRUE]
    /\ UNCHANGED <<CALENDAR_CHANNEL_ID, arquivo, canal, proxId, tique, ops, ultimo, ultPub>>

\* line 178: an error other than NotFound is not caught
EditFalha(h) ==
    /\ hs[h].pc = "edit"
    /\ hs' = [hs EXCEPT ![h] = Abortar(hs[h], "edit")]
    /\ UNCHANGED <<CALENDAR_CHANNEL_ID, arquivo, canal, proxId, tique, ops, ultimo, ultPub>>

\* mutant: setdefault instead of assignment, a stored reference is kept
ComReferenciaSeAusente(dados, month_key, id) ==
    IF month_key \in DOMAIN dados.mensagens THEN dados
    ELSE [dados EXCEPT !.mensagens = Put(dados.mensagens, month_key, [message_id |-> id])]

\* lines 189-190: the Document the handler loaded, with the new reference
ComReferencia(dados, month_key, id) ==
    [dados EXCEPT !.mensagens = Put(dados.mensagens, month_key, [message_id |-> id])]

\* lines 186-191: the message is created, its id stored, the Document saved
SendOk(h) ==
    /\ hs[h].pc = "send"
    /\ canal' = Put(canal, proxId, EmbedDe(hs[h]))
    /\ proxId' = proxId + 1
    /\ arquivo' = salvar_dados(
                      ComReferencia(hs[h].dados, MonthKey(hs[h].ano, hs[h].mes), proxId))
    /\ ultPub' = PubConcluida(hs[h].ano, hs[h].mes, proxId, EmbedDe(hs[h]))
    /\ hs' = [hs EXCEPT ![h] = Retornar([hs[h] EXCEPT !.msg_id = proxId])]
    /\ UNCHANGED <<CALENDAR_CHANNEL_ID, tique, ops, ultimo>>

\* line 186: canal.send raises
SendFalha(h) ==
    /\ hs[h].pc = "send"
    /\ hs' = [hs EXCEPT ![h] = Abortar(hs[h], "send")]
    /\ UNCHANGED <<CALENDAR_CHANNEL_ID, arquivo, canal, proxId, tique, ops, ultimo, ultPub>>

\* on_ready, lines 251-253
OnReady ==
    /\ arquivo' = garantir_arquivo(arquivo)
    /\ UNCHANGED <<CALENDAR_CHANNEL_ID, canal, proxId, tique, ops, hs, ultimo, ultPub>>

(***************************************************************************)
(* Environment.                                                            *)
(***************************************************************************)
\* somebody deletes a message of the channel
ApagarMensagem(id) ==
    /\ id \in DOMAIN canal
    /\ canal' = [x \in (DOMAIN canal) \ {id} |-> canal[x]]
    /\ ultPub' = SemPub
    /\ UNCHANGED <<CALENDAR_CHANNEL_ID, arquivo, proxId, tique, ops, hs, ultimo>>

\* the wall clock advances
Tick ==
    /\ tique < MaxTick
    /\ tique' = tique + 1
    /\ UNCHANGED <<CALENDAR_CHANNEL_ID, arquivo, canal, proxId, ops, hs, ultimo, ultPub>>

(***************************************************************************)
(* Specifications.                                                         *)
(***************************************************************************)
\* a handler starts; so is TRUE when handlers are handled one after another
Iniciar(so) ==
    \E h \in Handlers :
        /\ so => Parado
        /\ \/ \E u \in Usuarios, t \in Tipos, c \in BOOLEAN :
                  \E n \in NomesDe(u) : IniciarPonto(h, u, n, t, c)
           \/ \E a \in ArgsMes, d \in BOOLEAN, c \in BOOLEAN : IniciarAtualizar(h, d, a, c)
           \/ \E a \in ArgsMes : IniciarCalendario(h, a[1], a[2])

\* a suspended handler resumes with the result of its awaited call
Continuar ==
    \E h \in Handlers :
        \/ FetchChannelOk(h)
        \/ FetchMessageOk(h)
        \/ EditOk(h)
        \/ SendOk(h)

\* a suspended handler resumes with discord.NotFound, which the code catches
NaoEncontrar ==
    \E h \in Handlers :
        \/ FetchMessageNotFound(h)
        \/ EditNotFound(h)

\* a suspended handler resumes with an exception of its awaited call
Falhar ==
    \E h \in Handlers :
        \/ FetchChannelFalha(h)
        \/ FetchMessageFalha(h)
        \/ EditFalha(h)
        \/ SendFalha(h)

Apagar == \E id \in DOMAIN canal : ApagarMensagem(id)

\* handlers dispatched concurrently, platform errors, deletions
Next ==
    Iniciar(FALSE) \/ Continuar \/ NaoEncontrar \/ Falhar \/ Apagar \/ Tick \/ OnReady

Spec == Init /\ [][Next]_vars

\* handlers handled one after another
NextSeq ==
    Iniciar(TRUE) \/ Continuar \/ NaoEncontrar \/ Falhar \/ Apagar \/ Tick \/ OnReady

SpecSeq == Init /\ [][NextSeq]_vars

\* handlers dispatched concurrently; no platform call fails, nothing is deleted
NextOk == Iniciar(FALSE) \/ Continuar \/ Tick \/ OnReady

SpecOk == Init /\ [][NextOk]_vars

(***************************************************************************)
(* The renderer on its own: !calendario applied once to the Documents that *)
(* a bounded number of clicks leave behind.  The clicks are taken in any   *)
(* order of their instants: datetime.now() is the local wall clock, which  *)
(* can be set back between two clicks.                                     *)
(***************************************************************************)
\* number of clicks that made the Document
MaxCliques == 2

\* the instants of the clicks: two days of one month, a day of the next
\* month, and a day of the same month of another year
InstantesRender ==
    {<<2025, 11, 28, 9, 0>>, <<2025, 11, 3, 18, 30>>, <<2025, 12, 1, 8, 5>>,
     <<2024, 11, 28, 7, 45>>}

\* the display name of a member in these clicks
NomeRender(user_id) ==
    IF user_id = "1001" THEN <<"a", "l", "i", "c", "e">> ELSE <<"b", "o", "b">>

CliquesRender ==
    {[agora |-> a, user_id |-> u, nome |-> NomeRender(u), tipo |-> t] :
        a \in InstantesRender, u \in Usuarios, t \in Tipos}

\* the sequences of at most n elements of S
SeqsAte(S, n) == UNION {[1..k -> S] : k \in 0..n}

\* registros after registrar_ponto handled the clicks, one after another
RECURSIVE RegistrosDe(_)
RegistrosDe(cliques) ==
    IF cliques = <<>> THEN <<>>
    ELSE LET c == cliques[Len(cliques)]
         IN  Carimbar(RegistrosDe(SubSeq(cliques, 1, Len(cliques) - 1)),
                      get_date_str(c.agora), c.user_id, c.nome, c.tipo,
                      FmtHora(c.agora))

\* the years and months asked of !calendario
AnosRender == {2024, 2025, 2026, 2027}

MesesRender == 0..13

\* the store after the clicks; comRef is whether the calendar of 2025-11 was
\* published after them (message 1 of the channel)
InitRender ==
    /\ \E cliques \in SeqsAte(CliquesRender, MaxCliques), comRef \in BOOLEAN :
           LET registros == RegistrosDe(cliques)
               mensagens == IF comRef
                            THEN Put(<<>>, MonthKey(2025, 11), [message_id |-> 1])
                            ELSE <<>>
           IN  /\ arquivo = IF cliques = <<>> /\ ~comRef
                            THEN [existe |-> FALSE, dados |-> DocVazio]
                            ELSE salvar_dados([registros |-> registros,
                                               mensagens |-> mensagens])
               /\ canal = IF comRef THEN Put(<<>>, 1, Embed(2025, 11, registros))
                          ELSE <<>>
               /\ proxId = IF comRef THEN 2 ELSE 1
    /\ CALENDAR_CHANNEL_ID = CanalConfigurado
    /\ tique = 0
    /\ ops = 0
    /\ hs = [h \in Handlers |-> HandlerLivre]
    /\ ultimo = <<>>
    /\ ultPub = SemPub

\* one !calendario ano mes
Renderizar ==
    /\ ops = 0
    /\ \E ano \in AnosRender, mes \in MesesRender : IniciarCalendario(1, ano, mes)

SpecRender == InitRender /\ [][Renderizar]_vars

(***************************************************************************)
(* Observations used by the properties.                                    *)
(***************************************************************************)
TemRegistro(registros, date_str, user_id) ==
    PosUsuario(UsuariosDe(registros, date_str), user_id) # 0

\* the entrada or saida of (date, user) in registros, the placeholder if the
\* record is absent
Campo(registros, date_str, user_id, tipo) ==
    LET usuarios == UsuariosDe(registros, date_str)
        p == PosUsuario(usuarios, user_id)
    IN  IF p = 0 THEN SemHora
        ELSE IF tipo = "entrada" THEN usuarios[p].entrada ELSE usuarios[p].saida

NomeEm(registros, date_str, user_id) ==
    LET usuarios == UsuariosDe(registros, date_str)
    IN  usuarios[PosUsuario(usuarios, user_id)].name

\* the stamp of a record handler is in registros
CarimboDe(hd, registros) ==
    Campo(registros, hd.date_str, hd.user_id, hd.tipo) = hd.hora_str

\* the year-month key of the month a calendar message is titled with
ChaveDoTitulo(title) ==
    MonthKey(title.ano, CHOOSE m \in 1..12 : MESES_PT[m] = title.mes)

Referencias == arquivo.dados.mensagens

\* the year, month and day a date string "YYYY-MM-DD" stands for
AnoDe(date_str) == ParseInt(Fatia(date_str, 0, 4))

MesDe(date_str) == ParseInt(Fatia(date_str, 5, 7))

DiaDe(date_str) == ParseInt(Fatia(date_str, 8, 10))

\* the dates of registros that fall in the month mes of the year ano
DatasEm(registros, ano, mes) ==
    {d \in DOMAIN registros : AnoDe(d) = ano /\ MesDe(d) = mes}

\* the lines of a text: the pieces between its line breaks
LinhasDoTexto(texto) ==
    LET quebras   == {i \in 1..Len(texto) : texto[i] = "\n"}
        quebra(k) == IF k = 0 THEN 0
                     ELSE IF k > Cardinality(quebras) THEN Len(texto) + 1
                     ELSE CHOOSE i \in quebras :
                              Cardinality({j \in quebras : j < i}) = k - 1
    IN  [k \in 1..(Cardinality(quebras) + 1) |->
            SubSeq(texto, quebra(k - 1) + 1, quebra(k) - 1)]

\* handler h of !calendario has answered with a calendar
Respondeu(h) ==
    /\ hs[h].cmd = "calendario"
    /\ hs[h].pc = "fim"
    /\ Len(hs[h].resposta) = 2
    /\ hs[h].resposta[1] = "calendario"

\* the lines of the calendar handler h has answered with
LinhasDe(h) == LinhasDoTexto(hs[h].resposta[2].description)

\* the lines after the fenced grid: the notice, or the listing by day
Listagem(linhas) ==
    LET fim == CHOOSE i \in 2..Len(linhas) :
                   /\ linhas[i] = Cerca
                   /\ \A j \in 2..(i - 1) : linhas[j] # Cerca
    IN  SubSeq(linhas, fim + 1, Len(linhas))

\* the positions of the day headings in a listing
Titulos(resto) ==
    {i \in 1..Len(resto) : StartsWith(resto[i], <<"_", "_", "D", "i", "a", " ">>)}

\* the position of the k-th day heading
TituloNum(resto, k) ==
    CHOOSE i \in Titulos(resto) : Cardinality({j \in Titulos(resto) : j < i}) = k - 1

\* the rows of the grid: the lines between the header and the closing fence
LinhasDaGrade(linhas) ==
    LET fim == CHOOSE i \in 2..Len(linhas) :
                   /\ linhas[i] = Cerca
                   /\ \A j \in 2..(i - 1) : linhas[j] # Cerca
    IN  SubSeq(linhas, 3, fim - 1)

\* the c-th field of a grid row: three columns, one column apart
CampoDaLinha(linha, c) == SubSeq(linha, 4 * c - 3, 4 * c - 1)

\* handler h made a step out of program point pc and did not abort
Passou(h, pc) == hs[h].pc = pc /\ hs'[h].pc \notin {pc, "abortado"}

\* the step starts a handler of command cmd in slot h
Iniciou(h, cmd) == Livre(h) /\ ops' = ops + 1 /\ hs'[h].cmd = cmd

(***************************************************************************)
(* C1.  Exactly one calendar message per month: with handlers interleaved  *)
(* at their awaited calls and no message deleted, the channel holds at     *)
(* most one calendar message per year-month, and the stored Document       *)
(* holds the reference of that message.                                    *)
(* The code violates it: two handlers of the same month that both load the *)
(* Document before either has saved its reference both send a message.     *)
(***************************************************************************)
C1_UmaMensagemPorMes ==
    \A id \in DOMAIN canal :
        /\ \A outra \in DOMAIN canal : canal[outra].title = canal[id].title => outra = id
        /\ ChaveDoTitulo(canal[id].title) \in DOMAIN Referencias
        /\ Referencias[ChaveDoTitulo(canal[id].title)].message_id = id

(***************************************************************************)
(* C2.  Publish is idempotent: when a publish of a month completes and the *)
(* publish completed before it was of the same month, with no stamp        *)
(* recorded and no message deleted in between, the step is an edit of the  *)
(* same message, the content is what it was after the first call, no       *)
(* message is created and the stored references are unchanged.             *)
(***************************************************************************)
C2_PublicarIdempotente ==
    [][\A h \in Handlers :
          ( /\ Passou(h, "edit") \/ Passou(h, "send")
            /\ ultPub.valido /\ ultPub.ano = hs[h].ano /\ ultPub.mes = hs[h].mes )
          => /\ hs[h].pc = "edit"
             /\ hs'[h].msg_id = ultPub.id
             /\ DOMAIN canal' = DOMAIN canal
             /\ canal'[ultPub.id] = ultPub.embed
             /\ canal' = canal
             /\ arquivo' = arquivo
             /\ Referencias[MonthKey(hs[h].ano, hs[h].mes)].message_id = ultPub.id]_vars

\* a third publish in a row of the same month has completed on the message
C2_Witness ==
    /\ ultPub.valido
    /\ ultPub.seguidas >= 3
    /\ ultPub.id \in DOMAIN canal
    /\ canal[ultPub.id] = ultPub.embed

(***************************************************************************)
(* C3.  Deleted-message recovery: when a publish finds the stored message  *)
(* of its month gone (NotFound) and completes, exactly one message was     *)
(* created, the stored reference of the month is the new message's id, and *)
(* the references of other months and all clock records are unchanged.     *)
(***************************************************************************)
C3_RecriaMensagemApagada ==
    [][\A h \in Handlers :
          (Passou(h, "send") /\ hs[h].sumiu)
          => LET mk == MonthKey(hs[h].ano, hs[h].mes)
                 id == hs'[h].msg_id
             IN  /\ id \notin DOMAIN canal
                 /\ DOMAIN canal' = (DOMAIN canal) \cup {id}
                 /\ \A x \in DOMAIN canal : canal'[x] = canal[x]
                 /\ arquivo'.dados.mensagens[mk].message_id = id
                 /\ DOMAIN arquivo'.dados.mensagens = DOMAIN Referencias
                 /\ \A k \in (DOMAIN Referencias) \ {mk} :
                        arquivo'.dados.mensagens[k] = Referencias[k]
                 /\ arquivo'.dados.registros = arquivo.dados.registros]_vars

\* a publish has replaced the reference of a deleted message, with the
\* reference of another month in the Document
C3_Witness ==
    \E h \in Handlers :
        /\ hs[h].pc = "fim" /\ hs[h].sumiu
        /\ hs[h].msg_id \in DOMAIN canal
        /\ Referencias[MonthKey(hs[h].ano, hs[h].mes)].message_id = hs[h].msg_id
        /\ Cardinality(DOMAIN Referencias) >= 2

(***************************************************************************)
(* C4.  A record operation persists its stamp before it triggers the       *)
(* publisher, and a failed publish does not undo it: while the handler of  *)
(* the last click is in the publisher, and after it ended or aborted, the  *)
(* stored Document holds its stamp; the Document the publisher loaded      *)
(* holds it too.                                                           *)
(***************************************************************************)
C4_GravaAntesDePublicar ==
    \A h \in Handlers :
        hs[h].cmd = "ponto"
        => /\ arquivo.existe
           /\ CarimboDe(hs[h], arquivo.dados.registros)
           /\ hs[h].pc \in {"fetch_channel", "fetch_message", "edit", "send"}
                  => CarimboDe(hs[h], hs[h].dados.registros)

\* a platform call of the publish failed and the stamp is in the Document
C4_Witness ==
    \E h \in Handlers :
        /\ hs[h].cmd = "ponto" /\ hs[h].pc = "abortado"
        /\ hs[h].erro \in {"fetch_channel", "fetch_message", "edit", "send"}
        /\ CarimboDe(hs[h], arquivo.dados.registros)

(***************************************************************************)
(* C5.  Platform errors during publish are caught inside the operation:    *)
(* the handler of a click does not abort, it reaches the confirmation.     *)
(* The code violates it: only discord.NotFound of lines 177-178 is caught; *)
(* any other exception of fetch_channel, fetch_message, edit or send       *)
(* leaves registrar_ponto before line 245.                                 *)
(***************************************************************************)
C5_FalhaDePublicarNaoAborta ==
    \A h \in Handlers : hs[h].cmd = "ponto" => hs[h].pc # "abortado"

(***************************************************************************)
(* C6.  Last write wins for stamps: with clicks handled one after another, *)
(* every (date, user) has one record at most, and its entrada and saida    *)
(* are the stamps of the most recent click of that kind, or the            *)
(* placeholder if there was none.                                          *)
(***************************************************************************)
C6_UltimoCarimboVence ==
    LET registros == arquivo.dados.registros
        datas == (DOMAIN registros) \cup {k[1] : k \in DOMAIN ultimo}
    IN  /\ \A d \in DOMAIN registros :
               \A i, j \in 1..Len(registros[d]) :
                   registros[d][i].id = registros[d][j].id => i = j
        /\ \A d \in datas, u \in Usuarios, t \in Tipos :
               Campo(registros, d, u, t) =
                   IF <<d, u, t>> \in DOMAIN ultimo THEN ultimo[<<d, u, t>>] ELSE SemHora

\* a repeated clock-in was accepted: the record was made by an ENTRADA click
\* under another name, and holds the stamp of the last ENTRADA click
C6_Witness ==
    \E h \in Handlers :
        /\ hs[h].cmd = "ponto" /\ hs[h].tipo = "entrada" /\ hs[h].pc = "fim"
        /\ hs[h].hora_str # FmtHora(Inicio)
        /\ hs[h].date_str = get_date_str(Inicio)
        /\ TemRegistro(arquivo.dados.registros, hs[h].date_str, hs[h].user_id)
        /\ NomeEm(arquivo.dados.registros, hs[h].date_str, hs[h].user_id) # hs[h].nome
        /\ Campo(arquivo.dados.registros, hs[h].date_str, hs[h].user_id, "saida") = SemHora
        /\ Campo(arquivo.dados.registros, hs[h].date_str, hs[h].user_id, "entrada")
               = hs[h].hora_str

(***************************************************************************)
(* C7.  The claim: after every click, the name stored in the (date, user)  *)
(* record is the display name the user had in that click.                  *)
(***************************************************************************)
C7_NomeUltimoVence ==
    [][\A h \in Handlers :
          Iniciou(h, "ponto")
          => NomeEm(arquivo'.dados.registros, hs'[h].date_str, hs'[h].user_id)
                 = hs'[h].nome]_vars

(***************************************************************************)
(* C7, amended.  The name is written with the record only: after every     *)
(* click, the name stored in the (date, user) record is the display name   *)
(* of that click if the Document held no record of (date, user), and is    *)
(* the name the record already held otherwise.                             *)
(***************************************************************************)
C7_NomeDoPrimeiroCarimbo ==
    [][\A h \in Handlers :
          Iniciou(h, "ponto")
          => LET d == hs'[h].date_str
                 u == hs'[h].user_id
             IN  NomeEm(arquivo'.dados.registros, d, u) =
                     IF TemRegistro(carregar_dados(arquivo).registros, d, u)
                     THEN NomeEm(arquivo.dados.registros, d, u)
                     ELSE hs'[h].nome]_vars

\* the last click was made under a name other than the one in its record
C7_Witness ==
    \E h \in Handlers :
        /\ hs[h].cmd = "ponto"
        /\ CarimboDe(hs[h], arquivo.dados.registros)
        /\ NomeEm(arquivo.dados.registros, hs[h].date_str, hs[h].user_id) # hs[h].nome

(***************************************************************************)
(* C8.  Lost update under concurrent dispatch: a stamp a click has saved   *)
(* can be absent from the stored Document later (C8_CarimboPerdido is      *)
(* reachable), and every step that removes a saved stamp is the            *)
(* publisher's save of line 191, by a handler whose Document, loaded at    *)
(* line 159, did not hold the stamp.                                       *)
(***************************************************************************)
C8_PerdaSoNoSalvarDoPublicador ==
    [][\A k \in DOMAIN ultimo :
          ( /\ Campo(arquivo.dados.registros, k[1], k[2], k[3]) = ultimo[k]
            /\ Campo(arquivo'.dados.registros, k[1], k[2], k[3]) # ultimo'[k] )
          => \E h \in Handlers :
                 /\ Passou(h, "send")
                 /\ arquivo'.dados.registros = hs[h].dados.registros
                 /\ Campo(hs[h].dados.registros, k[1], k[2], k[3]) # ultimo[k]]_vars

\* a saved stamp is not in the stored Document
C8_CarimboPerdido ==
    \E k \in DOMAIN ultimo :
        Campo(arquivo.dados.registros, k[1], k[2], k[3]) # ultimo[k]

(***************************************************************************)
(* C9.  The monthly calendar message is kept up to date: with the channel  *)
(* configured and no platform call failing, once no handler is in flight,  *)
(* the calendar message of every month a click was handled in (the message *)
(* the stored Document references for the month) has the text of the       *)
(* rendering of the stored Document.                                       *)
(* The code violates it: two handlers edit the message in the order their  *)
(* awaited calls complete, each with the text of the Document it loaded.   *)
(***************************************************************************)
C9_CalendarioAtualizado ==
    (CALENDAR_CHANNEL_ID # 0 /\ Parado)
    => \A k \in DOMAIN ultimo :
           LET mk  == Fatia(k[1], 0, 7)
               ano == ParseInt(Fatia(k[1], 0, 4))
               mes == ParseInt(Fatia(k[1], 5, 7))
           IN  (mk \in DOMAIN Referencias /\ Referencias[mk].message_id \in DOMAIN canal)
               => canal[Referencias[mk].message_id].description
                      = renderizar_calendario(ano, mes, arquivo.dados.registros)

(***************************************************************************)
(* C10.  show-calendar rejects a month outside 1..12 before any storage    *)
(* access: the reply is the error message, the file is neither created nor *)
(* written, no Document is loaded and nothing is rendered.                 *)
(***************************************************************************)
C10_MesInvalidoSemAcesso ==
    [][\A h \in Handlers :
          (Iniciou(h, "calendario") /\ (hs'[h].mes < 1 \/ hs'[h].mes > 12))
          => /\ arquivo' = arquivo
             /\ canal' = canal
             /\ hs'[h].dados = DocVazio
             /\ hs'[h].resposta = <<"mes_invalido">>]_vars

\* an invalid month was answered while the data file does not exist
C10_Witness ==
    \E h \in Handlers :
        /\ hs[h].cmd = "calendario" /\ hs[h].pc = "fim"
        /\ ~MesValido(hs[h].mes)
        /\ hs[h].resposta = <<"mes_invalido">>
        /\ ~arquivo.existe

(***************************************************************************)
(* C11.  The claim: refresh-calendar rejects an explicitly given month     *)
(* outside 1..12 before any Document access: the reply is a validation     *)
(* message, the file is neither created nor loaded, no platform call is    *)
(* made and the handler ends without an unhandled error.                   *)
(* The code violates it: comando_atualizar_calendario has no test of mes.  *)
(* With the channel configured the publisher loads the Document (line 159),*)
(* may call fetch_channel (line 166) and then monthdayscalendar raises     *)
(* IllegalMonthError (line 104); with the channel unset MESES_PT[mes]      *)
(* raises KeyError (line 282).                                             *)
(***************************************************************************)
C11_AtualizarMesInvalidoSemAcesso ==
    [][\A h \in Handlers :
          (Iniciou(h, "atualizar") /\ (hs'[h].mes < 1 \/ hs'[h].mes > 12))
          => /\ arquivo' = arquivo
             /\ canal' = canal
             /\ hs'[h].dados = DocVazio
             /\ hs'[h].pc = "fim"
             /\ hs'[h].resposta = <<"mes_invalido">>]_vars

(***************************************************************************)
(* C12.  show-calendar is read-only and total on valid months: for a month *)
(* in 1..12 the handler ends with the calendar rendered from the stored    *)
(* records as its reply, never an error; when no record falls in the month *)
(* the text is the grid followed by the "no records yet" notice; the       *)
(* records and references of the stored Document are unchanged and no      *)
(* message of the channel is created or edited.                            *)
(***************************************************************************)
C12_CalendarioSoLeitura ==
    [][\A h \in Handlers :
          (Iniciou(h, "calendario") /\ hs'[h].mes >= 1 /\ hs'[h].mes <= 12)
          => LET ano == hs'[h].ano
                 mes == hs'[h].mes
                 registros == arquivo.dados.registros
             IN  /\ hs'[h].pc = "fim"
                 /\ hs'[h].resposta =
                        <<"calendario",
                          [title |-> [mes |-> MESES_PT[mes], ano |-> ano],
                           description |-> renderizar_calendario(ano, mes, registros)]>>
                 /\ DatasEm(registros, ano, mes) = {}
                        => LinhasDoTexto(hs'[h].resposta[2].description)
                               = LinhasGrade(ano, mes) \o <<AvisoSemRegistros>>
                 /\ arquivo'.dados = arquivo.dados
                 /\ canal' = canal
                 /\ proxId' = proxId]_vars

\* !calendario 2024 5 on an empty store was answered with the grid and the
\* notice
C12_Witness ==
    \E h \in Handlers :
        /\ Respondeu(h)
        /\ hs[h].ano = 2024 /\ hs[h].mes = 5
        /\ arquivo.dados = DocVazio
        /\ LinhasDe(h)[Len(LinhasDe(h))] = AvisoSemRegistros
        /\ Len(LinhasDe(h)) = Len(LinhasGrade(2024, 5)) + 1

(***************************************************************************)
(* C13.  Publishing is skipped when the channel identifier is zero: in     *)
(* that configuration no message is created or edited and no handler waits *)
(* on a platform call; a refresh leaves the data file as it was and loads  *)
(* nothing; a click stores its stamp, adds no reference, and ends with the *)
(* confirmation to the member who clicked.                                 *)
(***************************************************************************)
C13_SemCanalNaoPublica ==
    [][CALENDAR_CHANNEL_ID = 0
       => /\ canal' = canal
          /\ proxId' = proxId
          /\ \A h \in Handlers :
                 /\ hs'[h].pc \notin {"fetch_channel", "fetch_message", "edit", "send"}
                 /\ Iniciou(h, "atualizar")
                        => /\ arquivo' = arquivo
                           /\ hs'[h].dados = DocVazio
                 /\ Iniciou(h, "ponto")
                        => /\ arquivo'.existe
                           /\ CarimboDe(hs'[h], arquivo'.dados.registros)
                           /\ arquivo'.dados.mensagens = arquivo.dados.mensagens
                           /\ hs'[h].pc = "fim"
                           /\ hs'[h].resposta =
                                  <<"registrada",
                                    IF hs'[h].tipo = "entrada" THEN "Entrada" ELSE "Saída",
                                    hs'[h].nome, SubSeq(hs'[h].hora_str, 12, 16)>>]_vars

\* with the channel unset, three handlers ran, the last click was confirmed
\* and its stamp is stored, and there is no message and no reference
C13_Witness ==
    /\ CALENDAR_CHANNEL_ID = 0
    /\ ops >= 3
    /\ canal = <<>>
    /\ Referencias = <<>>
    /\ Cardinality(DOMAIN ultimo) >= 2
    /\ \E h \in Handlers :
           /\ hs[h].cmd = "ponto" /\ hs[h].pc = "fim"
           /\ CarimboDe(hs[h], arquivo.dados.registros)
           /\ hs[h].resposta = MsgConf(hs[h].tipo, hs[h].nome, hs[h].hora_str)

(***************************************************************************)
(* C14.  Render lists exactly the month's records in date order: after the *)
(* grid, the text is the notice alone if and only if no record's date is   *)
(* in the year-month asked for; otherwise it is the heading followed by    *)
(* one block per date of that year-month, in ascending date order, each    *)
(* block a blank line, the day heading and one line per record of the      *)
(* date, in the order the records were made; there is no other line, so no *)
(* record of another month or year is listed.                              *)
(***************************************************************************)
C14_ListaSoOMesEmOrdem ==
    \A h \in Handlers :
        (Respondeu(h) /\ hs[h].mes >= 1 /\ hs[h].mes <= 12)
        => LET registros == arquivo.dados.registros
               datas == DatasEm(registros, hs[h].ano, hs[h].mes)
               resto == Listagem(LinhasDe(h))
               posto(d) == Cardinality({e \in datas : DiaDe(e) < DiaDe(d)}) + 1
           IN  /\ (\E i \in 1..Len(resto) : resto[i] = AvisoSemRegistros) <=> datas = {}
               /\ datas = {} => resto = <<AvisoSemRegistros>>
               /\ datas # {}
                      => /\ resto[1] = TituloRegistros
                         /\ Cardinality(Titulos(resto)) = Cardinality(datas)
                         /\ TituloNum(resto, 1) = 3
                         /\ \A d \in datas :
                                LET i == TituloNum(resto, posto(d))
                                    n == Len(registros[d])
                                IN  /\ resto[i - 1] = <<>>
                                    /\ resto[i] = <<"_", "_", "D", "i", "a", " ">>
                                                      \o SubSeq(d, 9, 10) \o <<"/">>
                                                      \o SubSeq(d, 6, 7) \o <<"_", "_">>
                                    /\ i + n <= Len(resto)
                                    /\ \A j \in 1..n :
                                           StartsWith(resto[i + j],
                                                      <<"-", " ">> \o registros[d][j].name
                                                          \o <<":", " ">>)
                                    /\ IF posto(d) = Cardinality(datas)
                                       THEN i + n = Len(resto)
                                       ELSE TituloNum(resto, posto(d) + 1) = i + n + 2

\* the calendar of 2025-11 was rendered from records of 2025-11-28 and of
\* 2024-11-28, and lists one day with one record
C14_Witness ==
    \E h \in Handlers :
        /\ Respondeu(h)
        /\ hs[h].ano = 2025 /\ hs[h].mes = 11
        /\ DOMAIN arquivo.dados.registros
               = {get_date_str(<<2025, 11, 28, 9, 0>>), get_date_str(<<2024, 11, 28, 7, 45>>)}
        /\ Len(Listagem(LinhasDe(h))) = 4
        /\ Cardinality(Titulos(Listagem(LinhasDe(h)))) = 1

(***************************************************************************)
(* C15.  Render shows hour:minute for a stamped field and the placeholder  *)
(* for an unstamped one: the line of every record of the month is          *)
(* "- name: entrada E | saída S", where E is the HH:MM part of the stored  *)
(* entrada timestamp, or "--:--" if entrada was never stamped, and S       *)
(* likewise for saida.  In particular, after the single click ENTRADA of   *)
(* alice at 2025-11-28 09:00, the calendar of 2025-11 has the line         *)
(* "- alice: entrada 09:00 | saída --:--".                                 *)
(***************************************************************************)
C15_HoraOuMarcador ==
    \A h \in Handlers :
        (Respondeu(h) /\ hs[h].mes >= 1 /\ hs[h].mes <= 12)
        => LET registros == arquivo.dados.registros
               datas == DatasEm(registros, hs[h].ano, hs[h].mes)
               resto == Listagem(LinhasDe(h))
               posto(d) == Cardinality({e \in datas : DiaDe(e) < DiaDe(d)}) + 1
               hora(valor) == IF valor = <<"-", "-", ":", "-", "-">> THEN valor
                              ELSE SubSeq(valor, 12, 16)
           IN  /\ \A d \in datas :
                      \A j \in 1..Len(registros[d]) :
                          /\ Len(hora(registros[d][j].entrada)) = 5
                          /\ Len(hora(registros[d][j].saida)) = 5
                          /\ resto[TituloNum(resto, posto(d)) + j] =
                                 <<"-", " ">> \o registros[d][j].name
                                     \o <<":", " ", "e", "n", "t", "r", "a", "d", "a", " ">>
                                     \o hora(registros[d][j].entrada)
                                     \o <<" ", "|", " ", "s", "a", "í", "d", "a", " ">>
                                     \o hora(registros[d][j].saida)
               /\ ( /\ hs[h].ano = 2025 /\ hs[h].mes = 11
                    /\ registros = RegistrosDe(<<[agora |-> <<2025, 11, 28, 9, 0>>,
                                                  user_id |-> "1001",
                                                  nome |-> <<"a", "l", "i", "c", "e">>,
                                                  tipo |-> "entrada"]>>) )
                      => \E i \in 1..Len(resto) :
                             resto[i] =
                                 <<"-", " ", "a", "l", "i", "c", "e", ":", " ", "e", "n",
                                   "t", "r", "a", "d", "a", " ", "0", "9", ":", "0", "0",
                                   " ", "|", " ", "s", "a", "í", "d", "a", " ", "-", "-",
                                   ":", "-", "-">>

\* the calendar of 2025-11 was rendered after the single click ENTRADA of
\* alice at 2025-11-28 09:00
C15_Witness ==
    \E h \in Handlers :
        /\ Respondeu(h)
        /\ hs[h].ano = 2025 /\ hs[h].mes = 11
        /\ DOMAIN arquivo.dados.registros = {<<"2", "0", "2", "5", "-", "1", "1", "-", "2", "8">>}
        /\ Len(arquivo.dados.registros[<<"2", "0", "2", "5", "-", "1", "1", "-", "2", "8">>]) = 1
        /\ Campo(arquivo.dados.registros, <<"2", "0", "2", "5", "-", "1", "1", "-", "2", "8">>,
                 "1001", "entrada")
               = <<"2", "0", "2", "5", "-", "1", "1", "-", "2", "8", " ", "0", "9", ":", "0", "0">>
        /\ Campo(arquivo.dados.registros, <<"2", "0", "2", "5", "-", "1", "1", "-", "2", "8">>,
                 "1001", "saida") = <<"-", "-", ":", "-", "-">>
        /\ Len(LinhasDe(h)[Len(LinhasDe(h))]) = 36

(***************************************************************************)
(* C16.  Render grid shape: the text starts with the fence and the weekday *)
(* header, which is on no other line; between the header and the closing   *)
(* fence there is one row per Monday-first week the month touches; every   *)
(* row has 7 fields of three columns, one space between two fields; the    *)
(* field of week w and weekday c holds the number of the day of the month  *)
(* that falls on that weekday of that week, right-justified in two         *)
(* columns, and is blank if that day is of another month.  So every day    *)
(* number from 1 to the last day of the month is there once, in order, in  *)
(* the column of its weekday.                                              *)
(***************************************************************************)
C16_FormaDaGrade ==
    \A h \in Handlers :
        (Respondeu(h) /\ hs[h].mes >= 1 /\ hs[h].mes <= 12)
        => LET ano == hs[h].ano
               mes == hs[h].mes
               linhas == LinhasDe(h)
               grade == LinhasDaGrade(linhas)
               dias == 1..DiasNoMes(ano, mes)
               primeiro == Ordinal(ano, mes, 1)
               \* the Monday-first week of day d, counted from Monday
               \* 0001-01-01 (ordinal 1), and its weekday, Monday 1
               semana(d) == (primeiro + d - 2) \div 7
               coluna(d) == ((primeiro + d - 2) % 7) + 1
               semanas == {semana(d) : d \in dias}
               numero(d) == IF d < 10 THEN <<" ", Digitos[d + 1], " ">>
                            ELSE <<Digitos[(d \div 10) + 1], Digitos[(d % 10) + 1], " ">>
               esperado(w, c) ==
                   IF \E d \in dias : semana(d) = semana(1) + w - 1 /\ coluna(d) = c
                   THEN numero(CHOOSE d \in dias :
                                   semana(d) = semana(1) + w - 1 /\ coluna(d) = c)
                   ELSE <<" ", " ", " ">>
           IN  /\ linhas[1] = Cerca
               /\ linhas[2] = Cabecalho
               /\ \A i \in 1..Len(linhas) : linhas[i] = Cabecalho => i = 2
               /\ Len(grade) = Cardinality(semanas)
               /\ \A w \in 1..Len(grade) :
                      /\ Len(grade[w]) = 27
                      /\ \A c \in 1..6 : grade[w][4 * c] = " "
                      /\ \A c \in 1..7 : CampoDaLinha(grade[w], c) = esperado(w, c)

\* a month of six weeks (March 2025) and a month of four (February 2027)
\* are both covered; this is the calendar of March 2025
C16_Witness ==
    \E h \in Handlers :
        /\ Respondeu(h)
        /\ hs[h].ano = 2025 /\ hs[h].mes = 3
        /\ Len(LinhasDaGrade(LinhasDe(h))) = 6
        /\ CampoDaLinha(LinhasDaGrade(LinhasDe(h))[1], 6) = <<" ", "1", " ">>
        /\ CampoDaLinha(LinhasDaGrade(LinhasDe(h))[6], 1) = <<"3", "1", " ">>

(***************************************************************************)
(* C17.  Frame of a record operation handled with no other handler in      *)
(* flight.  The step that handles the click writes the stamp in field k of *)
(* the (date, user) record, creating the record if it was absent; the      *)
(* other stamp field of the record is what it was (the placeholder for a   *)
(* new record), the records of other users and of other dates are what     *)
(* they were, and no reference changes.  While the operation is in its     *)
(* publish, no step changes the stored records, nor the reference of a     *)
(* month other than the month of the stamp.                                *)
(***************************************************************************)
C17_QuadroDoRegistro ==
    [][\A h \in Handlers :
          /\ Iniciou(h, "ponto")
                 => LET antes  == arquivo.dados.registros
                        depois == arquivo'.dados.registros
                        d      == hs'[h].date_str
                        u      == hs'[h].user_id
                        outro  == IF hs'[h].tipo = "entrada" THEN "saida" ELSE "entrada"
                        havia  == UsuariosDe(antes, d)
                    IN  /\ Campo(depois, d, u, hs'[h].tipo) = hs'[h].hora_str
                        /\ Campo(depois, d, u, outro) = Campo(antes, d, u, outro)
                        /\ DOMAIN depois = (DOMAIN antes) \cup {d}
                        /\ \A e \in (DOMAIN antes) \ {d} : depois[e] = antes[e]
                        /\ Len(depois[d]) = Len(havia)
                               + (IF TemRegistro(antes, d, u) THEN 0 ELSE 1)
                        /\ \A i \in 1..Len(havia) :
                               /\ depois[d][i].id = havia[i].id
                               /\ depois[d][i].name = havia[i].name
                               /\ havia[i].id # u => depois[d][i] = havia[i]
                        /\ arquivo'.dados.mensagens = arquivo.dados.mensagens
          /\ (hs[h].cmd = "ponto" /\ ~Terminal(h))
                 => /\ arquivo'.dados.registros = arquivo.dados.registros
                    /\ \A mk \in (DOMAIN Referencias) \cup (DOMAIN arquivo'.dados.mensagens) :
                           mk # MonthKey(hs[h].ano, hs[h].mes)
                           => /\ mk \in DOMAIN Referencias
                              /\ mk \in DOMAIN arquivo'.dados.mensagens
                              /\ arquivo'.dados.mensagens[mk] = Referencias[mk]]_vars

\* a click was handled to its end, its publish created the message of its
\* month, and the Document holds the record of another date and the
\* reference of another month
C17_Witness ==
    \E h \in Handlers :
        /\ hs[h].cmd = "ponto" /\ hs[h].pc = "fim"
        /\ CarimboDe(hs[h], arquivo.dados.registros)
        /\ MonthKey(hs[h].ano, hs[h].mes) \in DOMAIN Referencias
        /\ Referencias[MonthKey(hs[h].ano, hs[h].mes)].message_id = hs[h].msg_id
        /\ Cardinality(DOMAIN Referencias) >= 2
        /\ Cardinality(DOMAIN arquivo.dados.registros) >= 2

(***************************************************************************)
(* C18.  garantir_arquivo never resets existing data.  The data file, once *)
(* it exists, exists ever after; a step that saves nothing (on_ready, the  *)
(* load of a refresh or of !calendario, every other step) leaves an        *)
(* existing file as it is; the load at the start of a click returns what   *)
(* is stored, so the click keeps every other stamp and every reference;    *)
(* and the file holds the empty Document after a step only if it was       *)
(* absent, or held the empty Document, before the step.                    *)
(***************************************************************************)
C18_GarantirNaoReinicia ==
    [][/\ arquivo.existe => arquivo'.existe
       /\ ( /\ arquivo.existe
            /\ \A h \in Handlers : ~Iniciou(h, "ponto") /\ ~Passou(h, "send") )
              => arquivo' = arquivo
       /\ \A h \in Handlers :
              (arquivo.existe /\ Iniciou(h, "ponto"))
              => /\ arquivo'.dados.mensagens = arquivo.dados.mensagens
                 /\ \A d \in DOMAIN arquivo.dados.registros, u \in Usuarios, t \in Tipos :
                        <<d, u, t>> # <<hs'[h].date_str, hs'[h].user_id, hs'[h].tipo>>
                        => Campo(arquivo'.dados.registros, d, u, t)
                               = Campo(arquivo.dados.registros, d, u, t)
       /\ (arquivo'.existe /\ arquivo'.dados = DocVazio)
              => (~arquivo.existe \/ arquivo.dados = DocVazio)]_vars

\* !calendario loaded a Document that holds a stamp and a reference, and
\* the Document is still what was rendered
C18_Witness ==
    \E h \in Handlers :
        /\ Respondeu(h)
        /\ arquivo.existe
        /\ arquivo.dados.registros # <<>>
        /\ Referencias # <<>>
        /\ hs[h].resposta[2].description
               = renderizar_calendario(hs[h].ano, hs[h].mes, arquivo.dados.registros)
        /\ \E i \in 1..Len(LinhasDe(h)) : LinhasDe(h)[i] = TituloRegistros

(***************************************************************************)
(* C19.  No stamp is lost when no publish takes the creation branch.  With *)
(* handlers interleaved at their awaited calls, every step other than the  *)
(* completion of a send (lines 186-191) keeps every saved stamp in the     *)
(* stored Document, unless the step is a later click on the same           *)
(* (date, user, kind), which overwrites it.  The load-mutate-save of a     *)
(* click is one step: the stamp is stored when the handler first           *)
(* suspends.  A publish that is skipped or that edits the message saves    *)
(* nothing: only the start of a click and the completion of a send change  *)
(* the Document.                                                           *)
(***************************************************************************)
C19_SemCriacaoNaoPerde ==
    [][(\A g \in Handlers : ~Passou(g, "send"))
       => /\ \A k \in DOMAIN ultimo :
                 Campo(arquivo.dados.registros, k[1], k[2], k[3]) = ultimo[k]
                 => Campo(arquivo'.dados.registros, k[1], k[2], k[3]) = ultimo'[k]
          /\ \A h \in Handlers :
                 Iniciou(h, "ponto")
                 => /\ arquivo'.existe
                    /\ CarimboDe(hs'[h], arquivo'.dados.registros)
                    /\ ultimo'[<<hs'[h].date_str, hs'[h].user_id, hs'[h].tipo>>]
                           = hs'[h].hora_str
          /\ (\A h \in Handlers : ~Iniciou(h, "ponto"))
                 => arquivo'.dados = arquivo.dados]_vars

\* one message was ever created; two clicks were then handled at the same
\* time and both edited it, the edits landing in the other order than the
\* saves; every saved stamp is in the stored Document
C19_Witness ==
    /\ proxId = 2
    /\ Parado
    /\ Cardinality(DOMAIN ultimo) >= 2
    /\ \A k \in DOMAIN ultimo :
           Campo(arquivo.dados.registros, k[1], k[2], k[3]) = ultimo[k]
    /\ \A h \in Handlers :
           /\ hs[h].cmd = "ponto" /\ hs[h].pc = "fim"
           /\ hs[h].msg_id = 1
    /\ 1 \in DOMAIN canal
    /\ \E h \in Handlers :
           canal[1].description
               # renderizar_calendario(hs[h].ano, hs[h].mes, arquivo.dados.registros)

=============================================================================
